---- MODULE Spec2Model ----
(***************************************************************************)
(* Model of src/ai_apps_manager.py: the test battery of AIAppTester        *)
(* (run_full_test_suite, its seven probes, _generate_recommendations) and  *)
(* the health battery of HealthMonitor (monitor_all_applications,          *)
(* _check_application_health, _perform_health_check) driven by the         *)
(* `monitor` command loop.                                                 *)
(*                                                                         *)
(* Python dicts are records whose DOMAIN is the set of keys present, so    *)
(* dict.get(key, default) is Get(d, key, default).  A dict that preserves  *)
(* insertion order and is iterated (results["tests"]) is a sequence of     *)
(* [name, result] items.  An f-string is the concatenation it performs;    *)
(* the leading emoji of a recommendation is kept apart as the field `icon` *)
(* under an ASCII name.                                                    *)
(***************************************************************************)
EXTENDS Integers, Sequences, FiniteSets, TLC

VARIABLES
    command,          \* the CLI command dispatched by cli()
    \* ---- AIAppTester.run_full_test_suite
    suite_pc,         \* "loop" | "done" | "raised"
    test_idx,         \* position of the for loop in test_suite
    tests,            \* results["tests"], in insertion order
    passed_tests,     \* passed_tests
    suite_status,     \* results["overall_status"]
    recommendations,  \* results["recommendations"]
    ran,              \* what each probe run so far did (return value or exception)
    \* ---- monitor command and HealthMonitor
    config,           \* config["applications"], in dict order; the app name is the index
    pc,               \* position of the monitor coroutine
    session,          \* self.session: "None" | "open" | "closed"
    app_idx,          \* position of the for loop of monitor_all_applications
    applications,     \* results["applications"]
    alerts,           \* results["alerts"]
    overall_status,   \* results["overall_status"]
    unhealthy_count,  \* unhealthy_count
    ep_idx,           \* position of the for loop of _check_application_health
    checks,           \* health_results["checks"]
    failed_checks,    \* failed_checks
    inflight,         \* the session.get calls awaited and not yet resolved
    \* ---- TaskManagementIntegrator.create_deployment_followup_tasks
    fu_pc,            \* "issue" | "notify" | "done" | "raised"
    task_idx,         \* position of the for loop in followup_tasks
    created_tasks,    \* created_tasks
    attempts          \* the calls made so far to GitHub and Slack and how each ended

suite_vars == <<suite_pc, test_idx, tests, passed_tests, suite_status, recommendations, ran>>
cycle_vars == <<app_idx, applications, alerts, overall_status, unhealthy_count>>
app_vars == <<ep_idx, checks, failed_checks>>
mon_vars == <<config, pc, session, cycle_vars, app_vars, inflight>>
fu_vars == <<fu_pc, task_idx, created_tasks, attempts>>
vars == <<command, suite_vars, mon_vars, fu_vars>>

\* bounds of the monitoring configuration
MaxApps == 5
MaxEndpoints == 2
MaxProbes == 2
MaxLoopApps == 3

----------------------------------------------------------------------------
(* Python helpers *)

\* dict.get(k, d)
Get(r, k, d) == IF k \in DOMAIN r THEN r[k] ELSE d

\* the classes `except Exception` catches
ExceptionClasses == {"OSError", "UnicodeDecodeError", "AttributeError", "TypeError"}

\* mutant of CatchesException: the handler catches OSError only
CatchesOSErrorOnly(e) == e.type = "OSError"

\* `except Exception as e` matches e
CatchesException(e) == e.type \in ExceptionClasses

\* str(e)
Str(e) == e.msg

Returns(d) == [kind |-> "return", value |-> d]
Raises(t, m) == [kind |-> "raise", value |-> [type |-> t, msg |-> m]]

----------------------------------------------------------------------------
(* AIAppTester: the probes.  Each operator is the set of ways the probe    *)
(* can end, one per return statement, plus the exceptions of the I/O that  *)
(* the probe performs outside any try block.                               *)

test_suite == << "dependency_check", "configuration_validation", "unit_tests",
                 "integration_tests", "performance_tests", "security_scan",
                 "ai_model_tests" >>

_test_dependencies ==
    { Returns([status |-> "failed", error |-> "No requirements.txt found"]),
      Returns([status |-> "passed", message |-> "All dependencies can be installed"]),
      Returns([status |-> "failed", error |-> "pip stderr"]),
      Returns([status |-> "failed", error |-> "Dependency check timeout"]) }

_test_configuration ==
    { Returns([status |-> "passed", env_vars_documented |-> TRUE]),
      Returns([status |-> "warning", env_vars_documented |-> FALSE,
               recommendation |-> "Add configuration documentation"]),
      Raises("UnicodeDecodeError", "invalid start byte") }

_run_unit_tests ==
    { Returns([status |-> "skipped", message |-> "No test directory found",
               recommendation |-> "Add unit tests"]),
      Returns([status |-> "passed", output |-> "pytest stdout"]),
      Returns([status |-> "failed", error |-> "pytest stderr"]),
      Returns([status |-> "failed", error |-> "Unit tests timeout"]) }

\* mutant of _run_integration_tests: the stub replaced by a test run that passes
_run_integration_tests_passing ==
    { Returns([status |-> "passed", output |-> "pytest stdout"]) }

_run_integration_tests ==
    { Returns([status |-> "skipped", message |-> "Integration tests not yet implemented",
               recommendation |-> "Implement AI model integration tests"]) }

_run_performance_tests ==
    { Returns([status |-> "skipped", message |-> "Performance tests not yet implemented",
               recommendation |-> "Add performance benchmarking"]) }

_run_security_scan ==
    { Returns([status |-> "error", error |-> "Failed to install safety"]),
      Returns([status |-> "passed", message |-> "No security vulnerabilities found"]),
      Returns([status |-> "failed", vulnerabilities |-> "CVE-1234"]),
      Returns([status |-> "skipped", message |-> "No requirements.txt found"]),
      Returns([status |-> "error", error |-> "timed out after 120 seconds"]) }

_test_ai_models ==
    { Returns([status |-> "passed", frameworks_detected |-> "openai",
               recommendation |-> "Implement AI model response testing with mocks"]),
      Raises("OSError", "Permission denied") }

\* test_suite[test_name]()
TestFunc(test_name) ==
    CASE test_name = "dependency_check"         -> _test_dependencies
      [] test_name = "configuration_validation" -> _test_configuration
      [] test_name = "unit_tests"               -> _run_unit_tests
      [] test_name = "integration_tests"        -> _run_integration_tests
      [] test_name = "performance_tests"        -> _run_performance_tests
      [] test_name = "security_scan"            -> _run_security_scan
      [] test_name = "ai_model_tests"           -> _test_ai_models

----------------------------------------------------------------------------
(* AIAppTester: aggregation *)

\* mutant of OverallStatus: good from 0.8 instead of 0.7
OverallStatusGood80(passed, total) ==
    IF 10 * passed >= 9 * total THEN "excellent"
    ELSE IF 10 * passed >= 8 * total THEN "good"
    ELSE IF 10 * passed >= 5 * total THEN "fair"
    ELSE "poor"

\* success_rate = passed / total against 0.9, 0.7, 0.5; the comparisons are
\* cross-multiplied, which agrees with the float comparison for these sizes
OverallStatus(passed, total) ==
    IF 10 * passed >= 9 * total THEN "excellent"
    ELSE IF 10 * passed >= 7 * total THEN "good"
    ELSE IF 10 * passed >= 5 * total THEN "fair"
    ELSE "poor"

GeneralRecommendations ==
    << [icon |-> "books",     text |-> "Add comprehensive README with setup instructions"],
       [icon |-> "whale",     text |-> "Add Dockerfile for containerization"],
       [icon |-> "gear",      text |-> "Add GitHub Actions CI/CD workflow"],
       [icon |-> "chart",     text |-> "Add health check endpoints"],
       [icon |-> "magnifier", text |-> "Add logging and monitoring"] >>

\* the body of the for loop of _generate_recommendations for one item:
\* the strings it appends
RecommendationFor(test_name, result) ==
    IF Get(result, "status", "None") = "failed"
    THEN << [icon |-> "red_circle",
             text |-> "Fix " \o test_name \o ": " \o Get(result, "error", "Unknown error")] >>
    ELSE IF Get(result, "status", "None") = "skipped"
    THEN << [icon |-> "warning",
             text |-> "Implement " \o test_name \o ": "
                       \o Get(result, "recommendation", "Not implemented")] >>
    ELSE IF "recommendation" \in DOMAIN result
    THEN << [icon |-> "bulb", text |-> result.recommendation] >>
    ELSE << >>

RECURSIVE PerTestRecommendations(_)
PerTestRecommendations(test_results) ==
    IF test_results = << >> THEN << >>
    ELSE RecommendationFor(Head(test_results).name, Head(test_results).result)
         \o PerTestRecommendations(Tail(test_results))

\* mutant of _generate_recommendations: the general list is put first
GeneralFirstRecommendations(test_results) ==
    GeneralRecommendations \o PerTestRecommendations(test_results)

\* mutant of _generate_recommendations: the general list is added only when
\* no outcome has a recommendation of its own
GeneralIfNothingElse(test_results) ==
    IF PerTestRecommendations(test_results) = << >>
    THEN GeneralRecommendations
    ELSE PerTestRecommendations(test_results)

_generate_recommendations(test_results) ==
    PerTestRecommendations(test_results) \o GeneralRecommendations

----------------------------------------------------------------------------
(* AIAppTester.run_full_test_suite *)

\* results["tests"][test_name] = test_result
StoreResult(ts, test_name, test_result) ==
    Append(ts, [name |-> test_name, result |-> test_result])

\* mutant of ErrorResult: the fault description is lost
ErrorResultNoText(e) == [status |-> "error", error |-> "error"]

\* the dict the except branch stores
ErrorResult(e) == [status |-> "error", error |-> Str(e)]

\* one iteration of the for loop whose test_func returns
TestReturns ==
    /\ command = "test_app"
    /\ suite_pc = "loop"
    /\ test_idx <= Len(test_suite)
    /\ \E o \in TestFunc(test_suite[test_idx]) :
          /\ o.kind = "return"
          /\ ran' = Append(ran, o)
          /\ tests' = StoreResult(tests, test_suite[test_idx], o.value)
          /\ passed_tests' = IF Get(o.value, "status", "None") = "passed"
                             THEN passed_tests + 1 ELSE passed_tests
    /\ test_idx' = test_idx + 1
    /\ UNCHANGED <<command, suite_pc, suite_status, recommendations, mon_vars, fu_vars>>

\* one iteration of the for loop whose test_func raises
TestRaises ==
    /\ command = "test_app"
    /\ suite_pc = "loop"
    /\ test_idx <= Len(test_suite)
    /\ \E o \in TestFunc(test_suite[test_idx]) :
          /\ o.kind = "raise"
          /\ ran' = Append(ran, o)
          /\ IF CatchesException(o.value)
             THEN /\ tests' = StoreResult(tests, test_suite[test_idx], ErrorResult(o.value))
                  /\ test_idx' = test_idx + 1
                  /\ suite_pc' = suite_pc
             ELSE /\ suite_pc' = "raised"
                  /\ UNCHANGED <<tests, test_idx>>
    /\ UNCHANGED <<command, passed_tests, suite_status, recommendations, mon_vars, fu_vars>>

\* after the loop: the verdict and the recommendations, then return
SuiteFinish ==
    /\ command = "test_app"
    /\ suite_pc = "loop"
    /\ test_idx > Len(test_suite)
    /\ suite_status' = OverallStatus(passed_tests, Len(test_suite))
    /\ recommendations' = _generate_recommendations(tests)
    /\ suite_pc' = "done"
    /\ UNCHANGED <<command, test_idx, tests, passed_tests, ran, mon_vars, fu_vars>>

SuiteInit ==
    /\ suite_pc = "loop"
    /\ test_idx = 1
    /\ tests = << >>
    /\ passed_tests = 0
    /\ suite_status = "unknown"
    /\ recommendations = << >>
    /\ ran = << >>


----------------------------------------------------------------------------
(* HealthMonitor: configuration *)

EndpointNames == << "/health", "/ready", "/live", "/status", "/ping" >>

\* an app_config read from the JSON file: null, a dict without the key
\* health_endpoints, or a dict with a list of endpoints, be they distinct or
\* the same endpoint listed n times
JsonNull == [json_null |-> TRUE]
AppConfigs ==
    {JsonNull, [port |-> 8000]}
    \cup { [health_endpoints |-> SubSeq(EndpointNames, 1, n)] : n \in {0} \cup 2..MaxEndpoints }
    \cup { [health_endpoints |-> [i \in 1..n |-> "/health"]] : n \in 2..MaxEndpoints }

\* app_config.get("health_endpoints", ["/health"])
HealthEndpoints(app_config) == Get(app_config, "health_endpoints", << "/health" >>)

RECURSIVE ProbeCount(_)
ProbeCount(cfg) ==
    IF cfg = << >> THEN 0
    ELSE (IF Head(cfg) = JsonNull THEN 0 ELSE Len(HealthEndpoints(Head(cfg))))
         + ProbeCount(Tail(cfg))

Configs ==
    { cfg \in UNION { [1..n -> AppConfigs] : n \in 0..MaxApps } : ProbeCount(cfg) <= MaxProbes }

\* the value of time.time() differences, in ms
MeasuredMs == 42

----------------------------------------------------------------------------
(* HealthMonitor: aggregation *)

\* mutant of HealthStatus: exactly half failing counts as unhealthy
HealthStatusStrict(failed, n) ==
    IF failed = 0 THEN "healthy"
    ELSE IF 2 * failed < n THEN "degraded"
    ELSE "unhealthy"

\* mutant of HealthStatus: the labels of the two failing tiers exchanged
HealthStatusSwapped(failed, n) ==
    IF failed = 0 THEN "healthy"
    ELSE IF 2 * failed <= n THEN "unhealthy"
    ELSE "degraded"

\* failed_checks against len(health_endpoints) * 0.5; n * 0.5 is exact in
\* binary floating point, so the comparison is 2 * failed <= n
HealthStatus(failed, n) ==
    IF failed = 0 THEN "healthy"
    ELSE IF 2 * failed <= n THEN "degraded"
    ELSE "unhealthy"

\* mutant of SnapshotStatus: exactly 20% counts as unhealthy
SnapshotStatusStrict(unhealthy, total) ==
    IF unhealthy = 0 THEN "healthy"
    ELSE IF 5 * unhealthy < total THEN "degraded"
    ELSE "unhealthy"

\* unhealthy_count against total_apps * 0.2; the double 0.2 is above 1/5 by
\* less than 2^-56, so the rounded product is never below total/5 and the
\* comparison is 5 * unhealthy <= total for every total below 2^50
SnapshotStatus(unhealthy, total) ==
    IF unhealthy = 0 THEN "healthy"
    ELSE IF 5 * unhealthy <= total THEN "degraded"
    ELSE "unhealthy"

----------------------------------------------------------------------------
(* HealthMonitor._perform_health_check: the dict each branch returns *)

ResponseResult(endpoint, status) ==
    [endpoint |-> endpoint, success |-> (status = 200), status_code |-> status,
     response_time_ms |-> MeasuredMs,
     message |-> IF status = 200 THEN "OK" ELSE "HTTP " \o ToString(status)]

\* mutant of TimeoutResult: the elapsed time instead of the timeout value
TimeoutResultMeasured(endpoint) ==
    [endpoint |-> endpoint, success |-> FALSE, status_code |-> 0,
     response_time_ms |-> MeasuredMs, message |-> "Timeout"]

TimeoutResult(endpoint) ==
    [endpoint |-> endpoint, success |-> FALSE, status_code |-> 0,
     response_time_ms |-> 10000, message |-> "Timeout"]

ExceptionResult(endpoint, e) ==
    [endpoint |-> endpoint, success |-> FALSE, status_code |-> 0,
     response_time_ms |-> MeasuredMs, message |-> Str(e)]

\* the HTTP statuses a subject answers with
StatusCodes == {200, 503}

ClientError == [type |-> "OSError", msg |-> "Cannot connect to host"]
NullConfigError == [type |-> "AttributeError",
                    msg |-> "'NoneType' object has no attribute 'get'"]

----------------------------------------------------------------------------
(* the monitor command *)

\* async with HealthMonitor(config): __aenter__
AEnter ==
    /\ command = "monitor"
    /\ pc = "start"
    /\ session' = "open"
    /\ pc' = "tick"
    /\ UNCHANGED <<command, suite_vars, fu_vars, config, cycle_vars, app_vars, inflight>>

\* monitor_all_applications up to the for loop
StartCycle ==
    /\ pc = "tick"
    /\ applications' = << >>
    /\ alerts' = << >>
    /\ overall_status' = "healthy"
    /\ unhealthy_count' = 0
    /\ app_idx' = 1
    /\ pc' = "apps"
    /\ UNCHANGED <<command, suite_vars, fu_vars, config, session, app_vars, inflight>>

\* _check_application_health up to the for loop, for a dict app_config
BeginApp ==
    /\ pc = "apps"
    /\ app_idx <= Len(config)
    /\ config[app_idx] # JsonNull
    /\ checks' = << >>
    /\ failed_checks' = 0
    /\ ep_idx' = 1
    /\ pc' = "endpoints"
    /\ UNCHANGED <<command, suite_vars, fu_vars, config, session, cycle_vars, inflight>>

\* results["applications"][app_name] = {"status": "error", "message": str(e)}
RecordFault(apps, app_name, e) ==
    apps @@ (app_name :> [status |-> "error", message |-> Str(e)])

\* _check_application_health raises on app_config.get for a null app_config;
\* the except branch of monitor_all_applications
AppFault ==
    /\ pc = "apps"
    /\ app_idx <= Len(config)
    /\ config[app_idx] = JsonNull
    /\ IF CatchesException(NullConfigError)
       THEN /\ applications' = RecordFault(applications, app_idx, NullConfigError)
            /\ unhealthy_count' = unhealthy_count + 1
            /\ app_idx' = app_idx + 1
            /\ UNCHANGED <<pc, session>>
       ELSE /\ pc' = "crashed"
            /\ session' = "closed"
            /\ UNCHANGED <<applications, unhealthy_count, app_idx>>
    /\ UNCHANGED <<command, suite_vars, fu_vars, config, alerts, overall_status, app_vars, inflight>>

\* _perform_health_check up to the await of session.get
StartHealthCheck ==
    /\ pc = "endpoints"
    /\ ep_idx <= Len(HealthEndpoints(config[app_idx]))
    /\ inflight' = inflight \cup {<<app_idx, ep_idx>>}
    /\ pc' = "get"
    /\ UNCHANGED <<command, suite_vars, fu_vars, config, session, cycle_vars, app_vars>>

\* the rest of the loop body of _check_application_health for check_result
Collect(check_result) ==
    /\ checks' = Append(checks, check_result)
    /\ failed_checks' = IF Get(check_result, "success", FALSE)
                        THEN failed_checks ELSE failed_checks + 1
    /\ ep_idx' = ep_idx + 1
    /\ inflight' = inflight \ {<<app_idx, ep_idx>>}
    /\ pc' = "endpoints"
    /\ UNCHANGED <<command, suite_vars, fu_vars, config, session, cycle_vars>>

\* the subject answers
CheckResponds ==
    /\ pc = "get"
    /\ \E status \in StatusCodes :
          Collect(ResponseResult(HealthEndpoints(config[app_idx])[ep_idx], status))

\* asyncio.TimeoutError after 10 s
CheckTimesOut ==
    /\ pc = "get"
    /\ Collect(TimeoutResult(HealthEndpoints(config[app_idx])[ep_idx]))

\* any other exception of session.get
CheckRaises ==
    /\ pc = "get"
    /\ Collect(ExceptionResult(HealthEndpoints(config[app_idx])[ep_idx], ClientError))

\* results["alerts"] after the subject app_name returned app_health
Alerts(al, app_name, app_health) ==
    IF app_health.status # "healthy"
    THEN Append(al, [app |-> app_name, status |-> app_health.status,
                     message |-> Get(app_health, "message", "Application unhealthy")])
    ELSE al

\* mutant of HealthResults: the last check is left out
HealthResultsShort(cs, failed, n) ==
    [status |-> HealthStatus(failed, n), checks |-> SubSeq(cs, 1, Len(cs) - 1)]

\* the dict _check_application_health returns
HealthResults(cs, failed, n) ==
    [status |-> HealthStatus(failed, n), checks |-> cs]

\* the end of _check_application_health and the rest of the try block of
\* monitor_all_applications
EndApp ==
    /\ pc = "endpoints"
    /\ ep_idx > Len(HealthEndpoints(config[app_idx]))
    /\ LET app_health == HealthResults(checks, failed_checks,
                                       Len(HealthEndpoints(config[app_idx])))
       IN /\ applications' = applications @@ (app_idx :> app_health)
          /\ unhealthy_count' = IF app_health.status # "healthy"
                                THEN unhealthy_count + 1 ELSE unhealthy_count
          /\ alerts' = Alerts(alerts, app_idx, app_health)
    /\ app_idx' = app_idx + 1
    /\ pc' = "apps"
    /\ UNCHANGED <<command, suite_vars, fu_vars, config, session, overall_status, app_vars, inflight>>

\* mutant of EndCycle: the return is inside the for loop, after the first subject
EndCycleEarly ==
    /\ pc = "apps"
    /\ app_idx > 1
    /\ overall_status' = SnapshotStatus(unhealthy_count, Len(config))
    /\ pc' = "echo"
    /\ UNCHANGED <<command, suite_vars, fu_vars, config, session, app_idx, applications, alerts,
                   unhealthy_count, app_vars, inflight>>

\* after the for loop of monitor_all_applications: the overall status, return
EndCycle ==
    /\ pc = "apps"
    /\ app_idx > Len(config)
    /\ overall_status' = SnapshotStatus(unhealthy_count, Len(config))
    /\ pc' = "echo"
    /\ UNCHANGED <<command, suite_vars, fu_vars, config, session, app_idx, applications, alerts,
                   unhealthy_count, app_vars, inflight>>

\* the click.echo calls of monitor, up to the await of asyncio.sleep(30)
Echo ==
    /\ pc = "echo"
    /\ pc' = "sleep"
    /\ UNCHANGED <<command, suite_vars, fu_vars, config, session, cycle_vars, app_vars, inflight>>

\* asyncio.sleep(30) returns
Wake ==
    /\ pc = "sleep"
    /\ pc' = "tick"
    /\ UNCHANGED <<command, suite_vars, fu_vars, config, session, cycle_vars, app_vars, inflight>>

\* the task is cancelled at an await; CancelledError is not an Exception and
\* leaves through __aexit__, which closes the session
Cancel ==
    /\ pc \in {"get", "sleep"}
    /\ pc' = "cancelled"
    /\ session' = "closed"
    /\ inflight' = {}
    /\ UNCHANGED <<command, suite_vars, fu_vars, config, cycle_vars, app_vars>>

MonInit ==
    /\ pc = "start"
    /\ session = "None"
    /\ app_idx = 1
    /\ applications = << >>
    /\ alerts = << >>
    /\ overall_status = "healthy"
    /\ unhealthy_count = 0
    /\ ep_idx = 1
    /\ checks = << >>
    /\ failed_checks = 0
    /\ inflight = {}

----------------------------------------------------------------------------
(* TaskManagementIntegrator.create_deployment_followup_tasks *)

followup_tasks ==
    << [title |-> "Performance Monitoring Setup", category |-> "performance_monitoring",
        priority |-> "high"],
       [title |-> "Security Validation", category |-> "security_validation",
        priority |-> "critical"],
       [title |-> "Documentation Updates", category |-> "documentation",
        priority |-> "medium"],
       [title |-> "User Acceptance Testing", category |-> "testing",
        priority |-> "high"],
       [title |-> "Performance Optimization Review", category |-> "optimization",
        priority |-> "medium"] >>

\* the values of hash(task['title']) % 1000
IssueNumbers == {7, 421}

\* the dict _create_github_issue returns for the issue number n
GithubIssue(n) ==
    [html_url |-> "https://github.com/repo/issues/" \o ToString(n), number |-> n]

\* the task after the two assignments that follow _create_github_issue
WithIssue(task, github_issue) ==
    [title |-> task.title, category |-> task.category, priority |-> task.priority,
     github_issue_url |-> github_issue.html_url,
     github_issue_number |-> github_issue.number]

ApiError == [type |-> "OSError", msg |-> "Cannot connect to host"]

\* _create_github_issue returns: the task gets its issue fields and is
\* appended, up to the await of _send_slack_notification
IssueCreated ==
    /\ command = "create_followup_tasks"
    /\ fu_pc = "issue"
    /\ task_idx <= Len(followup_tasks)
    /\ \E n \in IssueNumbers :
          created_tasks' = Append(created_tasks,
                                  WithIssue(followup_tasks[task_idx], GithubIssue(n)))
    /\ attempts' = Append(attempts, [task |-> task_idx, op |-> "issue", ok |-> TRUE])
    /\ fu_pc' = "notify"
    /\ UNCHANGED <<command, suite_vars, mon_vars, task_idx>>

\* _create_github_issue raises: the except branch logs and the loop goes on
IssueFails ==
    /\ command = "create_followup_tasks"
    /\ fu_pc = "issue"
    /\ task_idx <= Len(followup_tasks)
    /\ attempts' = Append(attempts, [task |-> task_idx, op |-> "issue", ok |-> FALSE])
    /\ IF CatchesException(ApiError)
       THEN task_idx' = task_idx + 1 /\ fu_pc' = fu_pc
       ELSE task_idx' = task_idx /\ fu_pc' = "raised"
    /\ UNCHANGED <<command, suite_vars, mon_vars, created_tasks>>

\* _send_slack_notification returns
NotificationSent ==
    /\ command = "create_followup_tasks"
    /\ fu_pc = "notify"
    /\ attempts' = Append(attempts, [task |-> task_idx, op |-> "notify", ok |-> TRUE])
    /\ task_idx' = task_idx + 1
    /\ fu_pc' = "issue"
    /\ UNCHANGED <<command, suite_vars, mon_vars, created_tasks>>

\* mutant of NotificationFails: the task is appended after the notification,
\* so a failed notification leaves it out
NotificationFailsDropsTask ==
    /\ command = "create_followup_tasks"
    /\ fu_pc = "notify"
    /\ attempts' = Append(attempts, [task |-> task_idx, op |-> "notify", ok |-> FALSE])
    /\ created_tasks' = SubSeq(created_tasks, 1, Len(created_tasks) - 1)
    /\ task_idx' = task_idx + 1
    /\ fu_pc' = "issue"
    /\ UNCHANGED <<command, suite_vars, mon_vars>>

\* _send_slack_notification raises: the except branch logs, the task stays
NotificationFails ==
    /\ command = "create_followup_tasks"
    /\ fu_pc = "notify"
    /\ attempts' = Append(attempts, [task |-> task_idx, op |-> "notify", ok |-> FALSE])
    /\ IF CatchesException(ApiError)
       THEN task_idx' = task_idx + 1 /\ fu_pc' = "issue"
       ELSE task_idx' = task_idx /\ fu_pc' = "raised"
    /\ UNCHANGED <<command, suite_vars, mon_vars, created_tasks>>

\* after the for loop: return created_tasks
FollowupReturn ==
    /\ command = "create_followup_tasks"
    /\ fu_pc = "issue"
    /\ task_idx > Len(followup_tasks)
    /\ fu_pc' = "done"
    /\ UNCHANGED <<command, suite_vars, mon_vars, task_idx, created_tasks, attempts>>

FollowupInit ==
    /\ fu_pc = "issue"
    /\ task_idx = 1
    /\ created_tasks = << >>
    /\ attempts = << >>

----------------------------------------------------------------------------
(* cli(): one command is dispatched *)

Init ==
    /\ command \in {"test_app", "monitor", "create_followup_tasks"}
    /\ config \in (IF command = "monitor" THEN Configs ELSE {<< >>})
    /\ SuiteInit
    /\ MonInit
    /\ FollowupInit

Next ==
    \/ TestReturns
    \/ TestRaises
    \/ SuiteFinish
    \/ AEnter
    \/ StartCycle
    \/ BeginApp
    \/ AppFault
    \/ StartHealthCheck
    \/ CheckResponds
    \/ CheckTimesOut
    \/ CheckRaises
    \/ EndApp
    \/ EndCycle
    \/ Echo
    \/ Wake
    \/ Cancel
    \/ IssueCreated
    \/ IssueFails
    \/ NotificationSent
    \/ NotificationFails
    \/ FollowupReturn

Spec == Init /\ [][Next]_vars

\* the steps of the monitor coroutine that the event loop takes by itself: it
\* resumes a coroutine whose await is done, the sleep ends, and every request
\* resolves (it answers, fails, or times out after 10 s); cancellation is the
\* only step that nothing forces
LoopProgress ==
    \/ AEnter
    \/ StartCycle
    \/ BeginApp
    \/ AppFault
    \/ StartHealthCheck
    \/ CheckResponds
    \/ CheckTimesOut
    \/ CheckRaises
    \/ EndApp
    \/ EndCycle
    \/ Echo
    \/ Wake

\* the monitor command alone, over the configurations of at most MaxLoopApps
\* applications
LoopInit ==
    /\ command = "monitor"
    /\ config \in { cfg \in Configs : Len(cfg) <= MaxLoopApps }
    /\ SuiteInit
    /\ MonInit
    /\ FollowupInit

LoopNext == LoopProgress \/ Cancel

FairSpec == LoopInit /\ [][LoopNext]_vars /\ WF_vars(LoopProgress)

----------------------------------------------------------------------------
(* Properties *)

\* the indices of the outcomes of ts that satisfy P
Indices(ts, P(_)) == { i \in 1..Len(ts) : P(ts[i]) }

IsPassed(t)  == Get(t.result, "status", "None") = "passed"
IsSkipped(t) == Get(t.result, "status", "None") = "skipped"
IsFailed(t)  == Get(t.result, "status", "None") = "failed"
IsFailure(t) == Get(t.result, "status", "None") \in {"failed", "error"}
NotSkipped(t) == ~IsSkipped(t)

\* monitor_all_applications has returned its snapshot
SnapshotReturned == pc \in {"echo", "sleep"}

\* the subjects of the snapshot whose recorded status is not healthy
NonHealthy == { a \in DOMAIN applications : applications[a].status # "healthy" }

\* the failed checks of a finished health battery
FailedChecks(app_health) ==
    { i \in 1..Len(app_health.checks) : ~app_health.checks[i].success }

\* C1: a finished battery holds exactly one outcome per scheduled probe, in
\* probe order, and none for a probe that was not scheduled: the tests of a
\* finished suite are the seven suite keys, every suite in progress holds one
\* outcome per probe run so far, and the checks of every subject that
\* returned are its health endpoints, one check each.
C1_Completeness ==
    /\ Len(tests) = Len(ran)
    /\ \A i \in 1..Len(tests) : tests[i].name = test_suite[i]
    /\ suite_pc = "done" => Len(tests) = 7
    /\ \A a \in DOMAIN applications :
          applications[a].status # "error" =>
             /\ Len(applications[a].checks) = Len(HealthEndpoints(config[a]))
             /\ \A i \in 1..Len(applications[a].checks) :
                   applications[a].checks[i].endpoint = HealthEndpoints(config[a])[i]

\* C1 witness: a finished suite in which one probe raised and one failed
C1_Witness ==
    /\ suite_pc = "done"
    /\ \E i \in 1..Len(ran) : ran[i].kind = "raise"
    /\ \E i \in 1..Len(tests) : IsFailed(tests[i])

\* C2: a probe that raises is recorded as status=error with str(e), the fault
\* never reaches the caller, and every other probe runs and has its own
\* return value recorded unchanged.
C2_Isolation ==
    /\ suite_pc # "raised"
    /\ suite_pc = "done" => Len(ran) = Len(test_suite)
    /\ Len(tests) = Len(ran)
    /\ \A i \in 1..Len(ran) :
          /\ ran[i].kind = "raise" =>
                tests[i].result = [status |-> "error", error |-> ran[i].value.msg]
          /\ ran[i].kind = "return" => tests[i].result = ran[i].value

\* C2 witness: configuration_validation raised and ai_model_tests, run after
\* it, reports passed
C2_Witness ==
    /\ suite_pc = "done"
    /\ ran[2].kind = "raise"
    /\ tests[2].result.status = "error"
    /\ ran[7].kind = "return"
    /\ tests[7].result.status = "passed"

\* C3: skipped outcomes are outside the denominator of the verdict: the
\* verdict of the battery is the verdict of the battery without its skipped
\* outcomes, and a battery whose non-skipped outcomes all passed is excellent.
C3_SkipExclusion ==
    suite_pc = "done" =>
       /\ suite_status = OverallStatus(Cardinality(Indices(tests, IsPassed)),
                                       Cardinality(Indices(tests, NotSkipped)))
       /\ Indices(tests, NotSkipped) = Indices(tests, IsPassed) => suite_status = "excellent"

\* the verdict table of the claim C4 over the failure ratio f / n
FailureRatioVerdict(f, n) ==
    IF f = 0 THEN "excellent"
    ELSE IF 10 * f <= n THEN "good"
    ELSE IF 10 * f <= 3 * n THEN "fair"
    ELSE "poor"

C5_HealthVerdict ==
    \A a \in DOMAIN applications :
       (applications[a].status # "error" /\ Len(HealthEndpoints(config[a])) >= 1) =>
          LET E == Len(HealthEndpoints(config[a]))
              F == Cardinality(FailedChecks(applications[a]))
          IN /\ applications[a].status = "healthy" <=> F = 0
             /\ applications[a].status = "degraded" <=> (0 < 2 * F /\ 2 * F <= E)
             /\ applications[a].status = "unhealthy" <=> 2 * F > E

\* C5 witness: exactly half of the checks of a subject failed and it is degraded
C5_Witness ==
    \E a \in DOMAIN applications :
       /\ applications[a].status = "degraded"
       /\ Len(applications[a].checks) = 2
       /\ Cardinality(FailedChecks(applications[a])) = 1

\* C6: in a returned snapshot over T subjects of which U are not healthy
\* (faulted subjects included), overall_status is healthy iff U = 0, degraded
\* iff 0 < 5U <= T, unhealthy iff 5U > T.
C6_SnapshotStatus ==
    SnapshotReturned =>
       LET T == Len(config)
           U == Cardinality(NonHealthy)
       IN /\ overall_status = "healthy" <=> U = 0
          /\ overall_status = "degraded" <=> (0 < 5 * U /\ 5 * U <= T)
          /\ overall_status = "unhealthy" <=> 5 * U > T

\* C6 witness: one subject of five is not healthy and the snapshot is degraded
C6_Witness ==
    /\ SnapshotReturned
    /\ Len(config) = 5
    /\ Cardinality(NonHealthy) = 1
    /\ overall_status = "degraded"

\* C7: a returned snapshot has exactly one alert for each subject whose
\* recorded status is not healthy and none for a healthy subject.
C7_Alerts ==
    SnapshotReturned =>
       \A a \in DOMAIN applications :
          Cardinality({ i \in 1..Len(alerts) : alerts[i].app = a })
             = IF applications[a].status # "healthy" THEN 1 ELSE 0

\* C8: a subject whose check raises is recorded with status=error, the call
\* still returns a snapshot with an entry for every configured subject, and
\* every other subject has the status of its own completed checks.
C8_SubjectIsolation ==
    /\ pc # "crashed"
    /\ SnapshotReturned =>
          /\ DOMAIN applications = 1..Len(config)
          /\ \A a \in 1..Len(config) :
                IF config[a] = JsonNull
                THEN applications[a].status = "error"
                ELSE /\ applications[a].status \in {"healthy", "degraded", "unhealthy"}
                     /\ Len(applications[a].checks) = Len(HealthEndpoints(config[a]))

\* C8 witness: a snapshot in which a subject faulted and a subject checked
\* after it is healthy
C8_Witness ==
    /\ SnapshotReturned
    /\ \E a, b \in DOMAIN applications :
          /\ a < b
          /\ applications[a].status = "error"
          /\ applications[b].status = "healthy"
          /\ Len(applications[b].checks) >= 1

\* the group of a recommendation: failed, skipped, advisory, generic
Rank(rec) ==
    CASE rec.icon = "red_circle" -> 1
      [] rec.icon = "warning"    -> 2
      [] rec.icon = "bulb"       -> 3
      [] OTHER                   -> 4

HasRecommendation(t) == IsFailed(t) \/ IsSkipped(t) \/ "recommendation" \in DOMAIN t.result

Detail(result) ==
    IF "error" \in DOMAIN result THEN result.error ELSE result.vulnerabilities

\* C10: every failed outcome has the recommendation "Fix <name>: <detail>"
\* with the detail its probe produced, and in the battery {dependency passed,
\* configuration passed, unit_tests skipped, security_scan failed with
\* CVE-1234} that recommendation is the first of the list.
C10_FailedDetail ==
    suite_pc = "done" =>
       /\ \A i \in Indices(tests, IsFailed) :
             \E j \in 1..Len(recommendations) :
                recommendations[j] =
                   [icon |-> "red_circle",
                    text |-> "Fix " \o tests[i].name \o ": " \o Detail(tests[i].result)]
       /\ (IsPassed(tests[1]) /\ IsPassed(tests[2]) /\ IsSkipped(tests[3])
             /\ tests[6].result = [status |-> "failed", vulnerabilities |-> "CVE-1234"])
          => recommendations[1].text = "Fix security_scan: CVE-1234"

\* the last n items of a sequence
LastN(s, n) == SubSeq(s, Len(s) - n + 1, Len(s))

\* C11: whatever the outcomes (none at all, a battery in progress, a finished
\* battery with failed, errored or skipped outcomes), the list that
\* _generate_recommendations returns ends with the same five generic
\* reminders in the same order, so it is never empty; the list of a finished
\* suite is that list.
C11_GenericAlways ==
    /\ LET r == _generate_recommendations(tests)
       IN /\ Len(r) >= 5
          /\ LastN(r, 5) = GeneralRecommendations
    /\ suite_pc = "done" =>
          /\ Len(recommendations) >= 5
          /\ LastN(recommendations, 5) = GeneralRecommendations
          /\ \A j \in 1..(Len(recommendations) - 5) : Rank(recommendations[j]) # 4

\* C11 witness: a finished suite with a failed and an errored outcome whose
\* list still ends with the five generic reminders
C11_Witness ==
    /\ suite_pc = "done"
    /\ \E i \in 1..Len(tests) : IsFailed(tests[i])
    /\ \E i \in 1..Len(tests) : Get(tests[i].result, "status", "None") = "error"
    /\ Len(recommendations) > 5
    /\ recommendations[Len(recommendations)].icon = "magnifier"

\* C12: a battery with no outcome, or whose outcomes are all skipped, gets
\* the verdict "unknown": a subject configured with an empty health_endpoints
\* list is not reported healthy, neither is a snapshot over zero
\* applications, and a suite whose outcomes are all skipped is unknown.
C12_DegenerateUnknown ==
    /\ \A a \in DOMAIN applications :
          (applications[a].status # "error" /\ Len(applications[a].checks) = 0)
             => applications[a].status = "unknown"
    /\ (SnapshotReturned /\ Len(config) = 0) => overall_status = "unknown"
    /\ (suite_pc = "done" /\ Indices(tests, NotSkipped) = {}) => suite_status = "unknown"

\* the last item of a non-empty sequence
Last(s) == s[Len(s)]

\* the checks with message m
WithMessage(cs, m) == { i \in 1..Len(cs) : cs[i].message = m }

\* C13: a health check that times out adds exactly one outcome for its
\* endpoint, with success=false, message "Timeout" and response_time_ms =
\* 10000, and raises failed_checks by one; a health check that faults does
\* the same to checks and failed_checks, and in every battery a timed-out
\* check is among the failed checks that decide the verdict.
C13_TimeoutOutcome ==
    /\ [][CheckTimesOut =>
            /\ Len(checks') = Len(checks) + 1
            /\ SubSeq(checks', 1, Len(checks)) = checks
            /\ Last(checks').endpoint = HealthEndpoints(config[app_idx])[ep_idx]
            /\ Last(checks').success = FALSE
            /\ Last(checks').message = "Timeout"
            /\ Last(checks').response_time_ms = 10000
            /\ failed_checks' = failed_checks + 1]_vars
    /\ [][CheckRaises =>
            /\ Len(checks') = Len(checks) + 1
            /\ Last(checks').success = FALSE
            /\ failed_checks' = failed_checks + 1]_vars
    /\ [](\A a \in DOMAIN applications :
            applications[a].status # "error" =>
               /\ WithMessage(applications[a].checks, "Timeout")
                     \subseteq FailedChecks(applications[a])
               /\ \A i \in WithMessage(applications[a].checks, "Timeout") :
                     applications[a].checks[i].response_time_ms = 10000
               /\ (WithMessage(applications[a].checks, "Timeout") # {})
                     => applications[a].status # "healthy")

\* C13 witness: a subject with one endpoint whose check timed out is recorded
\* unhealthy
C13_Witness ==
    \E a \in DOMAIN applications :
       /\ applications[a].status = "unhealthy"
       /\ Len(applications[a].checks) = 1
       /\ applications[a].checks[1].message = "Timeout"
       /\ applications[a].checks[1].response_time_ms = 10000

\* the probes of the cycle that have not been started yet: the later
\* endpoints of the subject being checked and those of the later subjects
Unstarted ==
    { <<a, i>> \in (1..Len(config)) \X (1..Len(EndpointNames)) :
         /\ config[a] # JsonNull
         /\ i <= Len(HealthEndpoints(config[a]))
         /\ (a > app_idx \/ (a = app_idx /\ i > ep_idx)) }

\* C14: probes are fanned out concurrently, within a subject and across
\* subjects: while a probe is in flight and another probe of the cycle has
\* not started, that other probe can start (its subject's check or its own
\* request can begin) without waiting for the one in flight.
C14_ConcurrentFanOut ==
    (pc = "get" /\ inflight # {} /\ Unstarted # {}) =>
       ENABLED (StartHealthCheck \/ BeginApp)

\* the endpoint list of subject a names an endpoint twice
HasDuplicates(a) ==
    /\ config[a] # JsonNull
    /\ \E i, j \in 1..Len(HealthEndpoints(config[a])) :
          i < j /\ HealthEndpoints(config[a])[i] = HealthEndpoints(config[a])[j]

\* C15: a probe-set configuration with duplicate probe names is rejected
\* before any probe runs: no request of such a subject is ever in flight and
\* no batch of checks is recorded for it (the timeout of a probe is the
\* literal 10 of session.get and cannot be configured, so it is never
\* non-positive).
C15_FailFast ==
    \A a \in 1..Len(config) :
       HasDuplicates(a) =>
          /\ \A p \in inflight : p[1] # a
          /\ a \in DOMAIN applications => "checks" \notin DOMAIN applications[a]

\* the order of the three-tier scale
Tier(status) ==
    CASE status = "healthy"   -> 0
      [] status = "degraded"  -> 1
      [] status = "unhealthy" -> 2

\* C16: with the number of endpoints fixed, fewer failed checks never give a
\* worse tier: the verdict recorded for a subject with E endpoints and F
\* failed checks is no worse than the verdict of E endpoints with any larger
\* number of failed checks and no better than that of any smaller number; the
\* same for the overall status of a returned snapshot over T subjects against
\* the number of subjects that are not healthy.
C16_Monotone ==
    /\ \A a \in DOMAIN applications :
          applications[a].status # "error" =>
             LET E == Len(HealthEndpoints(config[a]))
                 F == Cardinality(FailedChecks(applications[a]))
             IN /\ \A f \in (F + 1)..E :
                      Tier(applications[a].status) <= Tier(HealthStatus(f, E))
                /\ \A f \in 0..(F - 1) :
                      Tier(HealthStatus(f, E)) <= Tier(applications[a].status)
    /\ SnapshotReturned =>
          LET T == Len(config)
              U == Cardinality(NonHealthy)
          IN /\ \A u \in (U + 1)..T :
                   Tier(overall_status) <= Tier(SnapshotStatus(u, T))
             /\ \A u \in 0..(U - 1) :
                   Tier(SnapshotStatus(u, T)) <= Tier(overall_status)

\* C16 witness: a subject with two endpoints and one failed check, in a
\* returned snapshot
C16_Witness ==
    /\ SnapshotReturned
    /\ \E a \in DOMAIN applications :
          /\ applications[a].status # "error"
          /\ Len(applications[a].checks) = 2
          /\ Cardinality(FailedChecks(applications[a])) = 1

\* a cycle is in flight: monitor_all_applications has been entered and has
\* not returned
Cycling == pc \in {"apps", "endpoints", "get"}

\* C17: a snapshot is returned and printed only when every configured subject
\* has its entry and no check is in flight; a check is in flight only inside
\* a cycle; after the return comes the printing, then the sleep, and a cycle
\* is entered only at the top of the while loop, which is reached only from
\* the start or from the end of the sleep, with a fresh snapshot.
C17_CycleOrder ==
    /\ [](SnapshotReturned =>
            /\ DOMAIN applications = 1..Len(config)
            /\ app_idx = Len(config) + 1
            /\ inflight = {})
    /\ [](inflight # {} => Cycling)
    /\ [][pc = "echo" => pc' = "sleep"]_vars
    /\ [][pc = "sleep" => pc' \in {"tick", "cancelled"}]_vars
    /\ [][(Cycling' /\ ~Cycling) => (pc = "tick" /\ applications' = << >> /\ app_idx' = 1)]_vars
    /\ [][(pc' = "tick") => pc \in {"start", "sleep"}]_vars
    /\ [][(inflight' # {} /\ inflight = {}) => (Cycling /\ Cycling')]_vars

\* C17 witness: the snapshot of two checked subjects has been printed and the
\* loop is in its sleep
C17_Witness ==
    /\ pc = "sleep"
    /\ Len(config) = 2
    /\ DOMAIN applications = 1..2
    /\ \A a \in 1..2 : applications[a].status # "error" /\ Len(applications[a].checks) = 1

\* C18: the monitor loop never ends by itself: under fairness of the event
\* loop, every cycle that starts gets to its printed snapshot and every sleep
\* is followed by the next cycle, whatever the checks and the subjects do,
\* unless the task is cancelled; the loop leaves its states only through
\* cancellation, the session is open while it runs and closed once cancelled.
C18_NoTerminalState ==
    /\ (command = "monitor" /\ pc = "tick") ~> (pc = "sleep" \/ pc = "cancelled")
    /\ (pc = "sleep") ~> (pc = "tick" \/ pc = "cancelled")
    /\ [](pc \in {"start", "tick", "apps", "endpoints", "get", "echo", "sleep", "cancelled"})
    /\ [](pc \in {"tick", "apps", "endpoints", "get", "echo", "sleep"} => session = "open")
    /\ [](pc = "cancelled" => session = "closed")
    /\ [][pc' = "cancelled" => pc \in {"get", "sleep", "cancelled"}]_vars

\* C18 witness: a cycle in which a subject faulted and a check failed has
\* been printed and the loop sleeps before its next cycle
C18_Witness ==
    /\ pc = "sleep"
    /\ session = "open"
    /\ \E a \in DOMAIN applications : applications[a].status = "error"
    /\ \E a \in DOMAIN applications : applications[a].status = "unhealthy"

\* the probes of the suite other than the two stubs
ImplementedProbes == {1, 2, 3, 6, 7}

\* C19: integration_tests and performance_tests always report skipped and
\* count in the denominator, so overall_status is never excellent: a finished
\* suite is good, fair or poor, and it is good only if the five other probes
\* all passed.
C19_ExcellentUnreachable ==
    /\ suite_status # "excellent"
    /\ \A i \in 1..Len(tests) : i \in {4, 5} => IsSkipped(tests[i])
    /\ suite_pc = "done" =>
          /\ suite_status \in {"good", "fair", "poor"}
          /\ suite_status = "good" => \A i \in ImplementedProbes : IsPassed(tests[i])

\* C19 witness: the five implemented probes passed, the two stubs are
\* skipped, and the suite is only good
C19_Witness ==
    /\ suite_pc = "done"
    /\ \A i \in ImplementedProbes : IsPassed(tests[i])
    /\ IsSkipped(tests[4]) /\ IsSkipped(tests[5])
    /\ passed_tests = 5
    /\ suite_status = "good"

\* the calls to op made so far, in the order they were made
CallsTo(op) == SelectSeq(attempts, LAMBDA a : a.op = op)

\* the positions in followup_tasks whose issue was created, in call order
CreatedIndices == [k \in 1..Len(SelectSeq(attempts, LAMBDA a : a.op = "issue" /\ a.ok)) |->
                      SelectSeq(attempts, LAMBDA a : a.op = "issue" /\ a.ok)[k].task]

\* C20: create_deployment_followup_tasks attempts the five tasks in declared
\* order; the list holds exactly the tasks whose issue was created, in declared
\* order, each with github_issue_url and github_issue_number; a failed issue
\* omits only its own task; a notification is sent for a task only right after
\* its issue was created; a failed notification leaves the task in the list;
\* and no failure leaves the function as an exception.
C20_IsolatedOrdered ==
    command = "create_followup_tasks" =>
        /\ fu_pc # "raised"
        /\ \A k \in 1..Len(CallsTo("issue")) : CallsTo("issue")[k].task = k
        /\ fu_pc = "done" => Len(CallsTo("issue")) = Len(followup_tasks)
        /\ Len(created_tasks) = Len(CreatedIndices)
        /\ \A k \in 1..Len(created_tasks) :
              /\ created_tasks[k].title = followup_tasks[CreatedIndices[k]].title
              /\ created_tasks[k].category = followup_tasks[CreatedIndices[k]].category
              /\ {"github_issue_url", "github_issue_number"} \subseteq DOMAIN created_tasks[k]
              /\ created_tasks[k].github_issue_number \in IssueNumbers
              /\ created_tasks[k].github_issue_url =
                     GithubIssue(created_tasks[k].github_issue_number).html_url
        /\ \A k \in 1..Len(created_tasks) : \A j \in 1..Len(created_tasks) :
              k < j => CreatedIndices[k] < CreatedIndices[j]
        /\ \A k \in 1..Len(attempts) :
              attempts[k].op = "notify" =>
                 /\ k > 1
                 /\ attempts[k-1] = [task |-> attempts[k].task, op |-> "issue", ok |-> TRUE]

\* a finished run in which one issue failed, a later notification failed and
\* the task of the failed notification is in the returned list
C20_Witness ==
    /\ command = "create_followup_tasks"
    /\ fu_pc = "done"
    /\ \E a \in 1..Len(attempts) : \E b \in 1..Len(attempts) :
          /\ a < b
          /\ attempts[a].op = "issue" /\ ~attempts[a].ok
          /\ attempts[b].op = "notify" /\ ~attempts[b].ok
          /\ \E k \in 1..Len(created_tasks) :
                created_tasks[k].title = followup_tasks[attempts[b].task].title
          /\ \A k \in 1..Len(created_tasks) :
                created_tasks[k].title # followup_tasks[attempts[a].task].title
    /\ Len(created_tasks) = Len(followup_tasks) - 1

====
